---- MODULE Spec2Model ----
(***************************************************************************)
(* Movie catalog: title normalisation, the resolver cascade, the JSON and  *)
(* CSV storage backends and the CSV migration, modelled from the Python    *)
(* sources.                                                                 *)
(*                                                                          *)
(* Text is a sequence of one-character strings.  Python's None is the      *)
(* one-element tuple NoneVal, which is no text over the alphabet; a float   *)
(* is <<"float", n>> with n the value in tenths.                            *)
(***************************************************************************)
EXTENDS Integers, Sequences, FiniteSets, TLC

VARIABLES
    jsonFile,   \* the JSON store file: [exists, text], text a sequence of tokens
    csvFile,    \* the CSV store file: [exists, rows], rows a sequence of cell sequences
    bakFile,    \* the file at <csv path>.bak, same shape as csvFile
    backend,    \* which IStorage implementation main() constructed: "json" or "csv"
    last,       \* the last storage call: [op, title, arg, out, before], before the
                \* list_movies() dict, in its order, as it was before the call
    prev,       \* what list_movies() returned before the last call
    wr,         \* the process using StorageJson and its _write in progress: [pc, old, new]
    js,         \* the last StorageJson constructor/list call: [op, out, cond, result]
    mig,        \* migration calls so far: [kind, calls, ret, pre, preBak, first]
    res,        \* the select_title_from_user_query call: [pc, movies, query, stages,
                \* exact, subs, scored, fuzzy, cands, raw, ret]
    cmd,        \* the MovieApp delete/update command in progress: [kind, pc, before,
                \* target, called, out]
    pair,       \* the last call made on a JSON and a CSV backend side by side:
                \* [op, title, arg, outJ, outC]
    nrm         \* a text and its normalization: [pc, s, once, twice]

vars == <<jsonFile, csvFile, bakFile, backend, last, prev, wr, js, mig, res, cmd, pair, nrm>>

(***************************************************************************)
(* Bounds                                                                   *)
(***************************************************************************)
MaxRecords == 2      \* add is explored while both stores hold fewer records
MaxCalls == 3        \* migration calls explored in a row
MaxCatalog == 2
MaxLen == 3      \* catalog size given to the resolver

(***************************************************************************)
(* Text helpers                                                             *)
(***************************************************************************)
NoneVal == <<"None">>

Float(n) == <<"float", n>>

IsNone(v) == v = NoneVal

\* Python's `v or ""` for an optional string
OrEmpty(v) == IF IsNone(v) THEN <<>> ELSE v

WS == {" "}

RECURSIVE LStrip(_)
LStrip(s) == IF s # <<>> /\ Head(s) \in WS THEN LStrip(Tail(s)) ELSE s

RECURSIVE RStrip(_)
RStrip(s) ==
    IF s # <<>> /\ s[Len(s)] \in WS THEN RStrip(SubSeq(s, 1, Len(s) - 1)) ELSE s

\* str.strip()
Strip(s) == LStrip(RStrip(s))

\* NFKDChar decomposing the small letter only
NFKDChar_SmallOnly(c) ==
    CASE c = "é" -> <<"e", "´">>
      [] OTHER -> <<c>>

\* one character's compatibility decomposition (unicodedata.normalize("NFKD", c)).
\* "´" stands for the combining acute U+0301, "U+0308" for the combining diaeresis,
\* "U+00A0" for the no-break space; the two combining marks have the same
\* combining class, so NFKD never reorders the texts written with these characters
NFKDChar(c) ==
    CASE c = "é" -> <<"e", "´">>           \* U+00E9 -> U+0065 U+0301
      [] c = "É" -> <<"E", "´">>           \* U+00C9 -> U+0045 U+0301
      [] c = "¨" -> <<" ", "U+0308">>      \* U+00A8 -> U+0020 U+0308
      [] c = "U+00A0" -> <<" ">>           \* U+00A0 -> U+0020
      [] OTHER -> <<c>>

\* one character's full case folding (str.casefold)
CasefoldChar(c) ==
    CASE c = "M" -> <<"m">>
      [] c = "A" -> <<"a">>
      [] c = "E" -> <<"e">>
      [] c = "É" -> <<"é">>
      [] c = "ß" -> <<"s", "s">>
      [] c = "S" -> <<"s">>
      [] c = "I" -> <<"i">>
      [] c = "N" -> <<"n">>
      [] OTHER -> <<c>>             \* also the dotless i U+0131, which folds to itself

RECURSIVE NFKD(_)
NFKD(s) == IF s = <<>> THEN <<>> ELSE NFKDChar(Head(s)) \o NFKD(Tail(s))

RECURSIVE casefold(_)
casefold(s) == IF s = <<>> THEN <<>> ELSE CasefoldChar(Head(s)) \o casefold(Tail(s))

\* " ".join(text.split()): drop leading/trailing whitespace, runs become one space
RECURSIVE JoinSplit(_)
JoinSplit(s) ==
    LET t == LStrip(s) IN
    IF t = <<>> THEN <<>>
    ELSE IF Head(t) \in WS THEN <<>>
    ELSE LET rest == Tail(t) IN
         IF rest # <<>> /\ Head(rest) \in WS
         THEN LET r == JoinSplit(rest) IN
              IF r = <<>> THEN <<Head(t)>> ELSE <<Head(t), " ">> \o r
         ELSE <<Head(t)>> \o JoinSplit(rest)

normalize_title(text) == JoinSplit(casefold(NFKD(text)))

\* `needle in hay` for str
Contains(hay, needle) ==
    \E i \in 0..(Len(hay) - Len(needle)) :
        SubSeq(hay, i + 1, i + Len(needle)) = needle

(***************************************************************************)
(* Input domains                                                            *)
(***************************************************************************)
\* "M" and "m" differ by case, "m " by trailing whitespace, "a" is unrelated
StoreTitles == { <<"M">>, <<"m">>, <<"m", " ">>, <<"a">> }

Omitted == <<"Omitted">>     \* the imdb_id argument left to its default

\* (year, rating, poster, imdb_id) argument tuples given to add_movie
Payloads ==
    { [year |-> <<"1", "9", "9", "7">>, rating |-> Float(85), poster |-> <<"u">>,
       imdb_id |-> Omitted],
      [year |-> NoneVal, rating |-> NoneVal, poster |-> NoneVal, imdb_id |-> <<"t", "t">>] }

RatingArgs == { NoneVal, Float(85) }

NotesArgs == { NoneVal, <<"n", " ">> }

(***************************************************************************)
(* Python dict with insertion order: a sequence of [k, v] with unique k     *)
(***************************************************************************)
Keys(d) == { d[i].k : i \in 1..Len(d) }

HasKey(d, key) == \E i \in 1..Len(d) : d[i].k = key

IndexOfKey(d, key) == CHOOSE i \in 1..Len(d) : d[i].k = key

Get(d, key) == IF HasKey(d, key) THEN d[IndexOfKey(d, key)].v ELSE NoneVal

\* d[key] = val
Put(d, key, val) ==
    IF HasKey(d, key)
    THEN [d EXCEPT ![IndexOfKey(d, key)] = [k |-> key, v |-> val]]
    ELSE Append(d, [k |-> key, v |-> val])

\* d.setdefault(key, val)
SetDefault(d, key, val) == IF HasKey(d, key) THEN d ELSE Append(d, [k |-> key, v |-> val])

RemoveAt(s, i) == SubSeq(s, 1, i - 1) \o SubSeq(s, i + 1, Len(s))

\* del d[key]
Del(d, key) == RemoveAt(d, IndexOfKey(d, key))

\* the dict as a mapping (dict equality ignores order)
AsMap(d) == [key \in Keys(d) |-> Get(d, key)]

(***************************************************************************)
(* JSON store file                                                          *)
(***************************************************************************)
Tok(kind, title, rec) == [tok |-> kind, title |-> title, rec |-> rec]

LBrace == Tok("{", NoneVal, NoneVal)
RBrace == Tok("}", NoneVal, NoneVal)
ArrayRoot == Tok("[]", NoneVal, NoneVal)     \* a document whose root is a list
Garbage == Tok("garbage", NoneVal, NoneVal)   \* text that is no JSON
BadBytes == Tok("badbytes", NoneVal, NoneVal)  \* bytes that are no UTF-8

\* json.dump(data, f): the chunks written, in order
JsonDump(data) ==
    <<LBrace>> \o [i \in 1..Len(data) |-> Tok("entry", data[i].k, data[i].v)] \o <<RBrace>>

WellFormedObject(text) ==
    /\ Len(text) >= 2
    /\ text[1].tok = "{"
    /\ text[Len(text)].tok = "}"
    /\ \A i \in 2..(Len(text) - 1) : text[i].tok = "entry"

RECURSIVE EntriesToDict(_)
EntriesToDict(entries) ==
    IF entries = <<>> THEN <<>>
    ELSE LET n == Len(entries) IN
         Put(EntriesToDict(SubSeq(entries, 1, n - 1)), entries[n].title, entries[n].rec)

\* json.load(f): [exc, root, data]
JsonLoad(text) ==
    IF \E i \in 1..Len(text) : text[i].tok = "badbytes"
    THEN [exc |-> "UnicodeDecodeError", root |-> "none", data |-> <<>>]
    ELSE IF WellFormedObject(text)
    THEN [exc |-> "none", root |-> "dict",
          data |-> EntriesToDict(SubSeq(text, 2, Len(text) - 1))]
    ELSE IF text = <<ArrayRoot>>
    THEN [exc |-> "none", root |-> "list", data |-> <<>>]
    ELSE [exc |-> "JSONDecodeError", root |-> "none", data |-> <<>>]

MissingFile == [exists |-> FALSE, text |-> <<>>]

\* migration guard of _read: every record gets a poster key
WithPoster(rec) ==
    IF "poster" \in DOMAIN rec THEN rec
    ELSE [key \in DOMAIN rec \cup {"poster"} |->
            IF key = "poster" THEN NoneVal ELSE rec[key]]

\* StorageJson._read: [exc, data]
StorageJson_read(file) ==
    IF ~file.exists THEN [exc |-> "FileNotFoundError", data |-> <<>>]
    ELSE LET ld == JsonLoad(file.text) IN
         IF ld.exc # "none" THEN [exc |-> ld.exc, data |-> <<>>]
         ELSE IF ld.root # "dict" THEN [exc |-> "ValueError", data |-> <<>>]
         ELSE [exc |-> "none",
               data |-> [i \in 1..Len(ld.data) |->
                           [k |-> ld.data[i].k, v |-> WithPoster(ld.data[i].v)]]]

\* StorageJson._write, run to completion
StorageJson_write(data) == [exists |-> TRUE, text |-> JsonDump(data)]

\* StorageJson.list_movies as a mapping; the file is readable in every state
\* the storage calls produce
ListJ(file) == AsMap(StorageJson_read(file).data)

\* the record add_movie stores
JsonRecord(year, rating, poster) ==
    [year |-> IF IsNone(year) THEN <<"N", "o", "n", "e">> ELSE NoneVal,
     rating |-> rating, poster |-> poster]

\* StorageJson.add_movie: [out, file]
StorageJson_add_movie(file, title, p) ==
    IF p.imdb_id # Omitted
    THEN [out |-> "TypeError", file |-> file]    \* no imdb_id parameter
    ELSE LET data == StorageJson_read(file).data IN
         [out |-> "ok",
          file |-> StorageJson_write(Put(data, title, JsonRecord(p.year, p.rating, p.poster)))]

\* StorageJson.delete_movie
StorageJson_delete_movie(file, title) ==
    LET data == StorageJson_read(file).data IN
    IF HasKey(data, title)
    THEN [out |-> "ok", file |-> StorageJson_write(Del(data, title))]
    ELSE [out |-> "ok", file |-> file]

\* StorageJson.update_movie
StorageJson_update_movie(file, title, rating) ==
    LET data == StorageJson_read(file).data IN
    IF HasKey(data, title)
    THEN [out |-> "ok",
          file |-> StorageJson_write(
                     Put(data, title, [Get(data, title) EXCEPT !.rating = rating]))]
    ELSE [out |-> "ok", file |-> file]

\* StorageJson has no update_movie_notes: the call reaches IStorage's body
IStorage_update_movie_notes(file, title, notes) ==
    [out |-> "NotImplementedError", file |-> file]

(***************************************************************************)
(* CSV store file                                                           *)
(***************************************************************************)
COL_title == <<"t", "i", "t", "l", "e">>
COL_rating == <<"r", "a", "t", "i", "n", "g">>
COL_year == <<"y", "e", "a", "r">>
COL_poster == <<"p", "o", "s", "t", "e", "r">>
COL_notes == <<"n", "o", "t", "e", "s">>
COL_imdb_id == <<"i", "m", "d", "b", "_", "i", "d">>

FIELDNAMES == <<COL_title, COL_rating, COL_year, COL_poster, COL_notes, COL_imdb_id>>

SeqToSet(s) == { s[i] : i \in 1..Len(s) }

RECURSIVE DropBlank(_)
DropBlank(rows) ==
    IF rows = <<>> THEN <<>>
    ELSE IF Head(rows) = <<>> THEN DropBlank(Tail(rows))
    ELSE <<Head(rows)>> \o DropBlank(Tail(rows))

\* csv.DictReader.fieldnames: the first row of the file, None for an empty file
DictReader_fieldnames(file) == IF file.rows = <<>> THEN NoneVal ELSE file.rows[1]

\* dict(zip(fieldnames, row)), short rows filled with None; cells beyond the
\* header go under the key None, which no reader or writer here looks at
RECURSIVE ZipRow(_, _)
ZipRow(names, cells) ==
    IF names = <<>> THEN <<>>
    ELSE LET n == Len(names) IN
         Put(ZipRow(SubSeq(names, 1, n - 1), cells), names[n],
             IF n <= Len(cells) THEN cells[n] ELSE NoneVal)

\* the dicts csv.DictReader yields: blank rows skipped
DictReader_rows(file) ==
    IF file.rows = <<>> THEN <<>>
    ELSE LET body == DropBlank(Tail(file.rows)) IN
         [i \in 1..Len(body) |-> ZipRow(file.rows[1], body[i])]

\* csv.DictWriter(fieldnames, extrasaction="ignore").writerow: None is written
\* as the empty cell, a missing key as restval ""
DictWriter_row(names, row) == [i \in 1..Len(names) |-> OrEmpty(Get(row, names[i]))]

\* StorageCsv._read_all
StorageCsv_read_all(file) ==
    LET rows == DictReader_rows(file) IN
    [i \in 1..Len(rows) |->
        SetDefault(SetDefault(rows[i], COL_notes, <<>>), COL_imdb_id, <<>>)]

\* StorageCsv._write_all
StorageCsv_write_all(rows) ==
    [exists |-> TRUE,
     rows |-> <<FIELDNAMES>> \o [i \in 1..Len(rows) |-> DictWriter_row(FIELDNAMES, rows[i])]]

\* StorageCsv._find_index_by_title: 0 stands for None
StorageCsv_find_index_by_title(rows, title) ==
    LET hits == { i \in 1..Len(rows) : casefold(OrEmpty(Get(rows[i], COL_title))) = casefold(title) }
    IN IF hits = {} THEN 0 ELSE CHOOSE i \in hits : \A j \in hits : i <= j

\* the float a rating cell parses to; the cells add_movie and update_movie write
\* are f"{float(rating)}"
FloatStr(r) ==
    CASE r = Float(85) -> <<"8", ".", "5">>
      [] r = Float(91) -> <<"9", ".", "1">>
      [] OTHER -> <<"?">>

ParseFloat(s) ==
    CASE s = <<"8", ".", "5">> -> Float(85)
      [] s = <<"9", ".", "1">> -> Float(91)
      [] OTHER -> NoneVal       \* float(s) raises ValueError

UpperChar(c) ==
    CASE c = "n" -> <<"N">>
      [] c = "a" -> <<"A">>
      [] c = "m" -> <<"M">>
      [] c = "e" -> <<"E">>
      [] c = "é" -> <<"É">>
      [] c = "s" -> <<"S">>
      [] c = "ß" -> <<"S", "S">>
      [] c = "i" -> <<"I">>
      [] c = "U+0131" -> <<"I">>         \* U+0131 -> U+0049
      [] OTHER -> <<c>>

\* str.lower, one character
LowerChar(c) ==
    CASE c = "N" -> <<"n">>
      [] c = "A" -> <<"a">>
      [] c = "M" -> <<"m">>
      [] c = "E" -> <<"e">>
      [] c = "É" -> <<"é">>
      [] c = "S" -> <<"s">>
      [] c = "I" -> <<"i">>
      [] OTHER -> <<c>>

\* str.upper
RECURSIVE upper(_)
upper(s) == IF s = <<>> THEN <<>> ELSE UpperChar(Head(s)) \o upper(Tail(s))

\* StorageCsv._to_float
StorageCsv_to_float(value) ==
    IF IsNone(value) THEN NoneVal
    ELSE LET s == Strip(value) IN
         IF s = <<>> \/ upper(s) = <<"N", "/", "A">> THEN NoneVal
         ELSE ParseFloat(s)

\* StorageCsv._none_if_blank
StorageCsv_none_if_blank(value) ==
    LET v == Strip(OrEmpty(value)) IN IF v # <<>> THEN v ELSE NoneVal

\* the record list_movies builds from one row
CsvRecord(row) ==
    [rating |-> StorageCsv_to_float(Get(row, COL_rating)),
     year |-> LET y == Strip(OrEmpty(Get(row, COL_year))) IN IF y # <<>> THEN y ELSE NoneVal,
     poster |-> StorageCsv_none_if_blank(Get(row, COL_poster)),
     notes |-> StorageCsv_none_if_blank(Get(row, COL_notes)),
     imdb_id |-> StorageCsv_none_if_blank(Get(row, COL_imdb_id))]

\* StorageCsv.list_movies as an insertion-ordered dict
RECURSIVE ListRows(_)
ListRows(rows) ==
    IF rows = <<>> THEN <<>>
    ELSE LET n == Len(rows)
             before == ListRows(SubSeq(rows, 1, n - 1))
             title == Strip(OrEmpty(Get(rows[n], COL_title)))
         IN IF title = <<>> THEN before ELSE Put(before, title, CsvRecord(rows[n]))

StorageCsv_list_movies(file) == ListRows(StorageCsv_read_all(file))

ListC(file) == AsMap(StorageCsv_list_movies(file))

\* the rating cell written as str(rating)
RatingCell_Str(rating) == IF IsNone(rating) THEN <<"N", "o", "n", "e">> ELSE FloatStr(rating)

\* "" if rating is None else f"{float(rating)}"
RatingCell(rating) == IF IsNone(rating) THEN <<>> ELSE FloatStr(rating)

\* the row add_movie appends
CsvRow(title, p) ==
    << [k |-> COL_title, v |-> title],
       [k |-> COL_rating, v |-> RatingCell(p.rating)],
       [k |-> COL_year, v |-> IF IsNone(p.year) THEN <<>> ELSE p.year],
       [k |-> COL_poster, v |-> OrEmpty(p.poster)],
       [k |-> COL_notes, v |-> <<>>],
       [k |-> COL_imdb_id, v |-> IF p.imdb_id = Omitted THEN <<>> ELSE OrEmpty(p.imdb_id)] >>

\* StorageCsv.add_movie: [out, file]
StorageCsv_add_movie(file, title, p) ==
    LET rows == StorageCsv_read_all(file) IN
    IF StorageCsv_find_index_by_title(rows, title) # 0
    THEN [out |-> "ValueError", file |-> file]
    ELSE [out |-> "ok", file |-> StorageCsv_write_all(Append(rows, CsvRow(title, p)))]

\* StorageCsv.delete_movie
StorageCsv_delete_movie(file, title) ==
    LET rows == StorageCsv_read_all(file)
        idx == StorageCsv_find_index_by_title(rows, title)
    IN IF idx = 0 THEN [out |-> "KeyError", file |-> file]
       ELSE [out |-> "ok", file |-> StorageCsv_write_all(RemoveAt(rows, idx))]

\* StorageCsv.update_movie
StorageCsv_update_movie(file, title, rating) ==
    LET rows == StorageCsv_read_all(file)
        idx == StorageCsv_find_index_by_title(rows, title)
    IN IF idx = 0 THEN [out |-> "KeyError", file |-> file]
       ELSE [out |-> "ok",
             file |-> StorageCsv_write_all(
                 [rows EXCEPT ![idx] = Put(rows[idx], COL_rating, RatingCell(rating))])]

\* StorageCsv.update_movie_notes
StorageCsv_update_movie_notes(file, title, notes) ==
    LET rows == StorageCsv_read_all(file)
        idx == StorageCsv_find_index_by_title(rows, title)
    IN IF idx = 0 THEN [out |-> "KeyError", file |-> file]
       ELSE [out |-> "ok",
             file |-> StorageCsv_write_all(
                 [rows EXCEPT ![idx] = Put(rows[idx], COL_notes, Strip(OrEmpty(notes)))])]

(***************************************************************************)
(* Storage calls through the IStorage interface, on the backend main()     *)
(* constructed over a path with no file                                     *)
(***************************************************************************)
NoCall == [op |-> "none", title |-> NoneVal, arg |-> NoneVal, out |-> "none",
           before |-> <<>>]

IdleWrite == [pc |-> "none", old |-> <<>>, new |-> <<>>]
NoJs == [op |-> "none", out |-> "none", cond |-> "none", result |-> << >>]
NoMig == [kind |-> "none", calls |-> 0, ret |-> <<>>, pre |-> <<>>, preBak |-> <<>>,
          first |-> <<>>]
NoRes == [pc |-> "off", movies |-> <<>>, query |-> <<>>, stages |-> <<>>, exact |-> <<>>,
          subs |-> <<>>, scored |-> <<>>, fuzzy |-> <<>>, cands |-> <<>>, raw |-> <<>>,
          ret |-> NoneVal]
NoCsv == [exists |-> FALSE, rows |-> <<>>]
NoCmd == [kind |-> "none", pc |-> "off", before |-> <<>>, target |-> NoneVal,
          called |-> "none", out |-> "none", line |-> NoneVal]
NoNrm == [pc |-> "off", s |-> <<>>, once |-> <<>>, twice |-> <<>>]
NoPair == [op |-> "none", title |-> NoneVal, arg |-> NoneVal, outJ |-> "none", outC |-> "none"]

\* list_movies() of the constructed backend, as a mapping
List == IF backend = "json" THEN ListJ(jsonFile) ELSE ListC(csvFile)

\* list_movies() of the constructed backend as an insertion-ordered dict
ListSeq ==
    IF backend = "json" THEN StorageJson_read(jsonFile).data
    ELSE StorageCsv_list_movies(csvFile)

KeySeq(d) == [i \in 1..Len(d) |-> d[i].k]

\* number of entries/rows the store file holds
Size ==
    IF backend = "json" THEN Len(StorageJson_read(jsonFile).data)
    ELSE Len(StorageCsv_read_all(csvFile))

Init ==
    /\ backend \in {"json", "csv"}
    /\ jsonFile = IF backend = "json" THEN StorageJson_write(<<>>) ELSE MissingFile
    /\ csvFile = IF backend = "csv" THEN StorageCsv_write_all(<<>>) ELSE NoCsv
    /\ bakFile = NoCsv
    /\ last = NoCall
    /\ prev = << >>
    /\ wr = IdleWrite
    /\ js = NoJs
    /\ mig = NoMig
    /\ res = NoRes
    /\ cmd = NoCmd
    /\ pair = NoPair
    /\ nrm = NoNrm

\* one call: rj is what StorageJson does, rc what StorageCsv does
Call(op, title, arg, rj, rc) ==
    /\ prev' = List
    /\ IF backend = "json"
       THEN /\ jsonFile' = rj.file
            /\ last' = [op |-> op, title |-> title, arg |-> arg, out |-> rj.out,
                         before |-> ListSeq]
            /\ UNCHANGED csvFile
       ELSE /\ csvFile' = rc.file
            /\ last' = [op |-> op, title |-> title, arg |-> arg, out |-> rc.out,
                         before |-> ListSeq]
            /\ UNCHANGED jsonFile
    /\ UNCHANGED <<bakFile, backend, wr, js, mig, res, cmd, pair, nrm>>

Add(title, p) ==
    /\ Size < MaxRecords
    /\ Call("add", title, p, StorageJson_add_movie(jsonFile, title, p),
            StorageCsv_add_movie(csvFile, title, p))

Delete(title) ==
    Call("delete", title, NoneVal, StorageJson_delete_movie(jsonFile, title),
         StorageCsv_delete_movie(csvFile, title))

UpdateRating(title, rating) ==
    Call("update_rating", title, rating, StorageJson_update_movie(jsonFile, title, rating),
         StorageCsv_update_movie(csvFile, title, rating))

UpdateNotes(title, notes) ==
    Call("update_notes", title, notes, IStorage_update_movie_notes(jsonFile, title, notes),
         StorageCsv_update_movie_notes(csvFile, title, notes))

Next ==
    \/ \E t \in StoreTitles, p \in Payloads : Add(t, p)
    \/ \E t \in StoreTitles : Delete(t)
    \/ \E t \in StoreTitles, r \in RatingArgs : UpdateRating(t, r)
    \/ \E t \in StoreTitles, n \in NotesArgs : UpdateNotes(t, n)

Spec == Init /\ [][Next]_vars

(***************************************************************************)
(* Storage contract (C1-C5)                                                 *)
(***************************************************************************)
\* the error of the storage contract an exception stands for: add_movie raises
\* ValueError for an existing title, the other calls KeyError for an absent one
OutcomeKind(op, out) ==
    CASE out = "ok" -> "success"
      [] out = "ValueError" /\ op = "add" -> "AlreadyExists"
      [] out = "KeyError" /\ op # "add" -> "NotFound"
      [] OTHER -> out

\* title collides under normalized comparison with a key of the mapping m
Collides(title, m) ==
    \E key \in DOMAIN m : normalize_title(key) = normalize_title(title)

\* a field of a listed record; records of the JSON backend have no notes or imdb_id
Field(rec, name) == IF name \in DOMAIN rec THEN rec[name] ELSE <<"absent">>

\* the imdb_id add_movie receives
ImdbArg(p) == IF p.imdb_id = Omitted THEN NoneVal ELSE p.imdb_id

\* C1: add of a record whose title collides under normalized comparison with a
\* title already in the store fails with AlreadyExists and leaves list() as it was.
C1_AddCollisionFails ==
    (last.op = "add" /\ Collides(last.title, prev))
        => (OutcomeKind(last.op, last.out) = "AlreadyExists" /\ List = prev)

\* C2: no two records of the store have titles with equal normalized forms.
C2_NormalizedTitlesUnique ==
    \A k1 \in DOMAIN List, k2 \in DOMAIN List :
        k1 # k2 => normalize_title(k1) # normalize_title(k2)

\* C3: delete of a title that is not a key of the store fails with NotFound and
\* leaves list() as it was.
C3_DeleteAbsentFails ==
    (last.op = "delete" /\ last.title \notin DOMAIN prev)
        => (OutcomeKind(last.op, last.out) = "NotFound" /\ List = prev)

\* C4: update_rating and update_notes of a title absent from the store fail with
\* NotFound and leave list() as it was.
C4_UpdateAbsentFails ==
    (last.op \in {"update_rating", "update_notes"} /\ last.title \notin DOMAIN prev)
        => (OutcomeKind(last.op, last.out) = "NotFound" /\ List = prev)

\* C5: after a successful add of a record R with a fresh title, list() has the key
\* R.title and the record under it has R's year, rating, poster and external id.
C5_AddListRoundTrip ==
    (last.op = "add" /\ last.out = "ok" /\ ~Collides(last.title, prev))
        => /\ last.title \in DOMAIN List
           /\ LET rec == List[last.title] IN
              /\ Field(rec, "year") = last.arg.year
              /\ Field(rec, "rating") = last.arg.rating
              /\ Field(rec, "poster") = last.arg.poster
              /\ Field(rec, "imdb_id") = ImdbArg(last.arg)

(***************************************************************************)
(* The JSON store file over the life of the processes that use it:         *)
(* StorageJson.__init__, list_movies, add_movie with its _write taken step *)
(* by step (open("w") truncates, json.dump writes, the with-block closes), *)
(* a crash of the process at any step, and another program writing the     *)
(* file.  wr.pc: "none" no StorageJson object, "idle" object constructed,  *)
(* "open" inside _write, "crashed" process died inside _write.             *)
(***************************************************************************)
JsonTitles == { <<"M">>, <<"m">>, <<"a">> }

JsonPayload ==
    [year |-> <<"1", "9", "9", "7">>, rating |-> Float(85), poster |-> <<"u">>,
     imdb_id |-> Omitted]

\* what the next reader finds at the path
FileCond(file) ==
    IF ~file.exists THEN "missing"
    ELSE IF file.text = <<>> THEN "empty"
    ELSE LET ld == JsonLoad(file.text) IN
         IF ld.exc # "none" THEN "unparsable"
         ELSE IF ld.root # "dict" THEN "nonobject"
         ELSE "object"

\* StorageJson.__init__: [out, file]
StorageJson_init(file) ==
    IF ~file.exists THEN [out |-> "ok", file |-> StorageJson_write(<<>>)]
    ELSE LET rd == StorageJson_read(file) IN
         IF rd.exc = "JSONDecodeError" THEN [out |-> "ok", file |-> StorageJson_write(<<>>)]
         ELSE IF rd.exc # "none" THEN [out |-> rd.exc, file |-> file]
         ELSE [out |-> "ok", file |-> file]

\* the contents another program can leave at the path
Clobbered ==
    { MissingFile,
      [exists |-> TRUE, text |-> <<>>],
      [exists |-> TRUE, text |-> <<Garbage>>],
      [exists |-> TRUE, text |-> <<BadBytes>>],
      [exists |-> TRUE, text |-> <<ArrayRoot>>] }

JsonInit ==
    /\ jsonFile = MissingFile
    /\ wr = IdleWrite
    /\ js = NoJs
    /\ backend = "json"
    /\ csvFile = NoCsv
    /\ bakFile = NoCsv
    /\ last = NoCall
    /\ prev = << >>
    /\ mig = NoMig
    /\ res = NoRes
    /\ cmd = NoCmd
    /\ pair = NoPair
    /\ nrm = NoNrm

JsonFrame == UNCHANGED <<csvFile, bakFile, backend, last, prev, mig, res, cmd, pair, nrm>>

\* a process starts and constructs StorageJson(path)
Construct ==
    /\ wr.pc \in {"none", "crashed"}
    /\ LET r == StorageJson_init(jsonFile) IN
       /\ jsonFile' = r.file
       /\ wr' = [pc |-> IF r.out = "ok" THEN "idle" ELSE "none", old |-> <<>>, new |-> <<>>]
       /\ js' = [op |-> "init", out |-> r.out, cond |-> FileCond(jsonFile),
                 result |-> IF r.out = "ok" /\ StorageJson_read(r.file).exc = "none"
                            THEN ListJ(r.file) ELSE << >>]
    /\ JsonFrame

\* storage.list_movies()
ListMovies ==
    /\ wr.pc = "idle"
    /\ LET rd == StorageJson_read(jsonFile) IN
       js' = [op |-> "list", out |-> IF rd.exc = "none" THEN "ok" ELSE rd.exc,
              cond |-> FileCond(jsonFile), result |-> AsMap(rd.data)]
    /\ UNCHANGED <<jsonFile, wr>>
    /\ JsonFrame

\* another program replaces or removes the file
Clobber(content) ==
    /\ wr.pc \in {"none", "idle"}
    /\ jsonFile' = content
    /\ js' = NoJs
    /\ UNCHANGED wr
    /\ JsonFrame

\* add_movie up to and including _write's open("w"), which truncates the file
SaveOpen(title) ==
    /\ wr.pc = "idle"
    /\ LET rd == StorageJson_read(jsonFile) IN
       /\ rd.exc = "none"
       /\ Len(rd.data) < MaxRecords
       /\ wr' = [pc |-> "open", old |-> jsonFile.text,
                 new |-> JsonDump(Put(rd.data, title,
                            JsonRecord(JsonPayload.year, JsonPayload.rating, JsonPayload.poster)))]
    /\ jsonFile' = [exists |-> TRUE, text |-> <<>>]
    /\ js' = NoJs
    /\ JsonFrame

\* json.dump: the next chunk reaches the file
SaveChunk ==
    /\ wr.pc = "open"
    /\ Len(jsonFile.text) + 1 < Len(wr.new)
    /\ jsonFile' = [jsonFile EXCEPT !.text = SubSeq(wr.new, 1, Len(jsonFile.text) + 1)]
    /\ UNCHANGED <<wr, js>>
    /\ JsonFrame

\* the with-block ends: the last chunk is flushed and the file closed
SaveClose ==
    /\ wr.pc = "open"
    /\ Len(jsonFile.text) + 1 = Len(wr.new)
    /\ jsonFile' = [jsonFile EXCEPT !.text = wr.new]
    /\ wr' = [pc |-> "idle", old |-> <<>>, new |-> <<>>]
    /\ UNCHANGED js
    /\ JsonFrame

\* the process dies inside _write
Crash ==
    /\ wr.pc = "open"
    /\ wr' = [wr EXCEPT !.pc = "crashed"]
    /\ UNCHANGED <<jsonFile, js>>
    /\ JsonFrame

JsonNext ==
    \/ Construct
    \/ ListMovies
    \/ \E c \in Clobbered : Clobber(c)
    \/ \E t \in JsonTitles : SaveOpen(t)
    \/ SaveChunk
    \/ SaveClose
    \/ Crash

SpecJson == JsonInit /\ [][JsonNext]_vars

\* C6: during a save, and after a crash at any step of it, the store file holds
\* either the complete previous document or the complete new document.
C6_AtomicWrite ==
    wr.pc \in {"open", "crashed"} =>
        /\ jsonFile.exists
        /\ jsonFile.text \in {wr.old, wr.new}

\* C7: when the store file is missing, empty, unparsable or has a root that is not
\* an object, constructing the backend and list() return an empty mapping and do
\* not raise.
C7_JsonResilience ==
    (js.op \in {"init", "list"} /\ js.cond \in {"missing", "empty", "unparsable", "nonobject"})
        => (js.out = "ok" /\ js.result = << >>)

(***************************************************************************)
(* CSV migration: migrate_csv_add_notes called repeatedly on one path.     *)
(* mig.kind is what the path is: "csv" a regular file named *.csv, "txt" a *)
(* regular file with another suffix, "dir" a directory named *.csv; the    *)
(* path may also not exist (csvFile.exists = FALSE).                        *)
(***************************************************************************)
\* the columns the application's migration command asks for
RequiredColumns == {COL_notes, COL_imdb_id}

DefaultHeader == <<COL_title, COL_rating, COL_year, COL_poster>>

DataRow == << <<"M">>, <<"8", ".", "5">>, <<"1", "9", "9", "7">>, <<"u">>, <<"n">>, <<"t", "t">> >>

OtherRow == << <<"a">>, <<>>, <<>>, <<>>, <<>>, <<>> >>

Take(s, n) == SubSeq(s, 1, IF n < Len(s) THEN n ELSE Len(s))

\* headers of files found on disk: the four-column schema, with notes, with
\* imdb_id but no notes, the full schema
MigHeaders ==
    { DefaultHeader,
      Append(DefaultHeader, COL_notes),
      Append(DefaultHeader, COL_imdb_id),
      FIELDNAMES }

\* data rows under a header of n columns: none, one, a short one, a blank line
\* between two, a row with one cell too many
MigBodies(n) ==
    { <<>>,
      <<Take(DataRow, n)>>,
      <<Take(DataRow, 2)>>,
      <<Take(DataRow, n), <<>>, Take(OtherRow, n)>>,
      <<Append(Take(DataRow, n), <<"x">>)>> }

\* CSV files a migration can meet: empty, headerless data, and the above
MigFiles ==
    { [exists |-> TRUE, rows |-> <<>>],
      [exists |-> TRUE, rows |-> <<Take(DataRow, 4)>>] }
    \cup { [exists |-> TRUE, rows |-> <<h>> \o b] : h \in MigHeaders, b \in MigBodies(4) }

OldBackup == [exists |-> TRUE, rows |-> <<DefaultHeader, Take(OtherRow, 4)>>]

\* the backup step replacing an existing backup
one_time_backup_Always(file, bak) == file

\* if not backup.exists(): p.replace(backup) -- the file at the backup path afterwards
one_time_backup(file, bak) == IF bak.exists THEN bak ELSE file

\* the path check without the suffix test
wrong_path_AnySuffix(kind, file) == ~file.exists \/ kind = "dir"

\* not p.exists() or not p.is_file() or p.suffix.lower() != ".csv"; kind is "csv"
\* for a regular file named *.csv, "txt" for one with another suffix, "dir" for a
\* directory
wrong_path(kind, file) == ~file.exists \/ kind # "csv"

\* migrate_csv_add_notes: [ret, file, bak]
migrate_csv_add_notes(kind, file, bak) ==
    IF wrong_path(kind, file)
    THEN [ret |-> "FileNotFoundError", file |-> file, bak |-> bak]
    ELSE LET names0 == DictReader_fieldnames(file)
             rows == DictReader_rows(file)
             names1 == IF IsNone(names0) \/ names0 = <<>> THEN DefaultHeader ELSE names0
         IN IF COL_notes \in SeqToSet(names1)
            THEN [ret |-> "unchanged", file |-> file, bak |-> bak]
            ELSE LET names2 == Append(names1, COL_notes)
                     rows2 == [i \in 1..Len(rows) |-> SetDefault(rows[i], COL_notes, <<>>)]
                 IN [ret |-> "changed",
                     file |-> [exists |-> TRUE,
                               rows |-> <<names2>> \o
                                   [i \in 1..Len(rows2) |-> DictWriter_row(names2, rows2[i])]],
                     bak |-> one_time_backup(file, bak)]

MigInit ==
    /\ \E kind \in {"csv", "txt", "dir"} :
        \E f \in MigFiles \cup {NoCsv} :
            /\ kind = "dir" => f = [exists |-> TRUE, rows |-> <<>>]
            /\ csvFile = f
            /\ mig = [kind |-> kind, calls |-> 0, ret |-> <<>>, pre |-> f, preBak |-> <<>>,
                      first |-> <<>>]
    /\ bakFile \in {NoCsv, OldBackup}
    /\ jsonFile = MissingFile
    /\ backend = "csv"
    /\ last = NoCall
    /\ prev = << >>
    /\ wr = IdleWrite
    /\ js = NoJs
    /\ res = NoRes
    /\ cmd = NoCmd
    /\ pair = NoPair
    /\ nrm = NoNrm

Migrate ==
    /\ mig.calls < MaxCalls
    /\ LET r == migrate_csv_add_notes(mig.kind, csvFile, bakFile) IN
       /\ csvFile' = r.file
       /\ bakFile' = r.bak
       /\ mig' = [mig EXCEPT !.calls = @ + 1,
                             !.ret = Append(@, r.ret),
                             !.preBak = IF mig.calls = 0 THEN bakFile ELSE @,
                             !.first = IF mig.calls = 0 THEN r.file ELSE @]
    /\ UNCHANGED <<jsonFile, backend, last, prev, wr, js, res, cmd, pair, nrm>>

MigNext == Migrate

SpecMig == MigInit /\ [][MigNext]_vars

\* the header DictReader sees lacks one of the required columns
LacksRequired(file) ==
    LET names == DictReader_fieldnames(file) IN
    IsNone(names) \/ \E c \in RequiredColumns : c \notin SeqToSet(names)

\* C8: on a CSV file lacking a required column the first migration call returns
\* changed, every following call returns unchanged and leaves the file as the
\* first call left it, and exactly one backup file exists afterwards.
C8_MigrationIdempotent ==
    (mig.calls >= 1 /\ mig.kind = "csv" /\ mig.pre.exists /\ LacksRequired(mig.pre))
        => /\ mig.ret[1] = "changed"
           /\ \A i \in 2..mig.calls : mig.ret[i] = "unchanged"
           /\ csvFile = mig.first
           /\ bakFile.exists

(***************************************************************************)
(* Title resolution: select_title_from_user_query, split at the input() of *)
(* prompt_index.  res.pc: "off" not called, "prompt" waiting at the        *)
(* prompt, "done" returned res.ret.  res.stages lists the stages evaluated. *)
(***************************************************************************)
FUZZY_THRESHOLD == 60

\* keys of the catalog given to the resolver, and the text typed as query
ResTitles == { <<"M">>, <<"m">>, <<"M", "a">>, <<"a", "m">>, <<"a">> }

Queries == { <<"m">>, <<"a">>, <<"M", "a">>, <<"m", " ">>, <<"x">>, <<>> }

\* lines typed at the prompt
RawInputs == { <<>>, <<" ">>, <<"0">>, <<"1">>, <<"2">>, <<"3">>, <<"9">>, <<"x">> }

\* scores fuzz.WRatio may return (an integer in 0..100)
ScoreVals == { 0, 59, 60, 100 }

\* dict keys are distinct
Distinct(s) == \A i, j \in 1..Len(s) : i # j => s[i] # s[j]

Catalogs == UNION { { c \in [1..n -> ResTitles] : Distinct(c) } : n \in 0..MaxCatalog }

\* code point of a character
Ord(c) ==
    CASE c = " " -> 32
      [] c = "0" -> 48
      [] c = "1" -> 49
      [] c = "2" -> 50
      [] c = "3" -> 51
      [] c = "9" -> 57
      [] c = "A" -> 65
      [] c = "E" -> 69
      [] c = "M" -> 77
      [] c = "a" -> 97
      [] c = "e" -> 101
      [] c = "m" -> 109
      [] c = "s" -> 115
      [] c = "x" -> 120
      [] c = "É" -> 201
      [] c = "ß" -> 223
      [] c = "é" -> 233
      [] c = "´" -> 769
      [] OTHER -> 1000

\* str < str
RECURSIVE StrLess(_, _)
StrLess(a, b) ==
    IF b = <<>> THEN FALSE
    ELSE IF a = <<>> THEN TRUE
    ELSE IF Head(a) = Head(b) THEN StrLess(Tail(a), Tail(b))
    ELSE Ord(Head(a)) < Ord(Head(b))

\* ExactMatches comparing the stored title as typed, not its normalized form
RECURSIVE ExactMatches_Unnormalized(_, _)
ExactMatches_Unnormalized(titles, norm_input) ==
    IF titles = <<>> THEN <<>>
    ELSE (IF Head(titles) = norm_input THEN <<Head(titles)>> ELSE <<>>)
         \o ExactMatches_Unnormalized(Tail(titles), norm_input)

\* [t for t in titles if normalize_title(t) == norm_input]
RECURSIVE ExactMatches(_, _)
ExactMatches(titles, norm_input) ==
    IF titles = <<>> THEN <<>>
    ELSE (IF normalize_title(Head(titles)) = norm_input THEN <<Head(titles)>> ELSE <<>>)
         \o ExactMatches(Tail(titles), norm_input)

\* SubstringFilter with the containment test the wrong way round
RECURSIVE SubstringFilter_Reversed(_, _)
SubstringFilter_Reversed(titles, norm_query) ==
    IF titles = <<>> THEN <<>>
    ELSE (IF Contains(norm_query, normalize_title(Head(titles))) THEN <<Head(titles)>> ELSE <<>>)
         \o SubstringFilter_Reversed(Tail(titles), norm_query)

\* [t for t in all_titles if norm_query in normalize_title(t)]
RECURSIVE SubstringFilter(_, _)
SubstringFilter(titles, norm_query) ==
    IF titles = <<>> THEN <<>>
    ELSE (IF Contains(normalize_title(Head(titles)), norm_query) THEN <<Head(titles)>> ELSE <<>>)
         \o SubstringFilter(Tail(titles), norm_query)

\* substring_matches looking for the query as typed, not its normalized form
substring_matches_Raw(all_titles, query) == SubstringFilter(all_titles, query)

\* substring_matches
substring_matches(all_titles, query) == SubstringFilter(all_titles, normalize_title(query))

\* the sort key without its title component
SortsBefore_ScoreOnly(a, b) == a.s > b.s

\* sort key (-score, title): a sorts before b
SortsBefore(a, b) == a.s > b.s \/ (a.s = b.s /\ StrLess(a.t, b.t))

RECURSIVE InsertSorted(_, _)
InsertSorted(sorted, x) ==
    IF sorted = <<>> THEN <<x>>
    ELSE IF SortsBefore(x, Head(sorted)) THEN <<x>> \o sorted
    ELSE <<Head(sorted)>> \o InsertSorted(Tail(sorted), x)

\* list.sort(key=...), stable
RECURSIVE SortScored(_)
SortScored(scored) ==
    IF scored = <<>> THEN <<>>
    ELSE InsertSorted(SortScored(SubSeq(scored, 1, Len(scored) - 1)), scored[Len(scored)])

\* the filter with a strict comparison
RECURSIVE KeepAtLeast_Strict(_, _)
KeepAtLeast_Strict(scored, threshold) ==
    IF scored = <<>> THEN <<>>
    ELSE (IF Head(scored).s > threshold THEN <<Head(scored)>> ELSE <<>>)
         \o KeepAtLeast_Strict(Tail(scored), threshold)

\* [(t, s) for t, s in scored if s >= threshold]
RECURSIVE KeepAtLeast(_, _)
KeepAtLeast(scored, threshold) ==
    IF scored = <<>> THEN <<>>
    ELSE (IF Head(scored).s >= threshold THEN <<Head(scored)>> ELSE <<>>)
         \o KeepAtLeast(Tail(scored), threshold)

\* [(t, fuzz.WRatio(query, t)) for t in all_titles], with score[t] the value
\* fuzz.WRatio(query, t) returned
ScoreAll(all_titles, score) ==
    [i \in 1..Len(all_titles) |-> [t |-> all_titles[i], s |-> score[all_titles[i]]]]

\* fuzzy_matches
fuzzy_matches(all_titles, score, threshold) ==
    SortScored(KeepAtLeast(ScoreAll(all_titles, score), threshold))

\* the candidates in their normalized form
TitlesOf_Normalized(scored) == [i \in 1..Len(scored) |-> normalize_title(scored[i].t)]

\* [t for t, _ in fuzzy]
TitlesOf(scored) == [i \in 1..Len(scored) |-> scored[i].t]

\* str.isdigit() and int(raw) for the one-character lines typed
IsDigit(c) == c \in {"0", "1", "2", "3", "9"}

DigitVal(c) == Ord(c) - 48

\* prompt_index, one pass of its loop: [again, none, idx]; none says that None is
\* returned (a blank line), idx is the zero-based index returned otherwise
prompt_index_step(raw_line, max_index) ==
    LET raw == Strip(raw_line) IN
    IF raw = <<>> THEN [again |-> FALSE, none |-> TRUE, idx |-> 0]
    ELSE IF Len(raw) = 1 /\ IsDigit(raw[1]) /\ 1 <= DigitVal(raw[1])
            /\ DigitVal(raw[1]) <= max_index
    THEN [again |-> FALSE, none |-> FALSE, idx |-> DigitVal(raw[1]) - 1]
    ELSE [again |-> TRUE, none |-> FALSE, idx |-> 0]

\* select_title_from_user_query up to its return or its first prompt
select_title_start(movies, user_input, score) ==
    LET titles == movies
        norm_input == normalize_title(user_input)
        exact == ExactMatches(titles, norm_input)
        subs == substring_matches(titles, user_input)
        fuzzy == fuzzy_matches(titles, score, FUZZY_THRESHOLD)
        base == [NoRes EXCEPT !.movies = movies, !.query = user_input, !.exact = exact]
    IN IF exact # <<>>
       THEN [base EXCEPT !.pc = "done", !.stages = <<"exact">>, !.ret = exact[1]]
       ELSE IF subs # <<>>
       THEN IF Len(subs) = 1
            THEN [base EXCEPT !.pc = "done", !.stages = <<"exact", "substring">>,
                              !.subs = subs, !.ret = subs[1]]
            ELSE [base EXCEPT !.pc = "prompt", !.stages = <<"exact", "substring">>,
                              !.subs = subs, !.cands = subs]
       ELSE IF fuzzy # <<>>
       THEN [base EXCEPT !.pc = "prompt", !.stages = <<"exact", "substring", "fuzzy">>,
                         !.scored = ScoreAll(titles, score),
                         !.fuzzy = fuzzy, !.cands = TitlesOf(fuzzy)]
       ELSE [base EXCEPT !.pc = "done", !.stages = <<"exact", "substring", "fuzzy">>,
                         !.scored = ScoreAll(titles, score), !.ret = NoneVal]

\* the fuzzy stage is reached for this call
ReachesFuzzy(movies, user_input) ==
    /\ ExactMatches(movies, normalize_title(user_input)) = <<>>
    /\ substring_matches(movies, user_input) = <<>>

\* the values fuzz.WRatio can return for the titles of this call: any score per
\* title when the fuzzy stage is reached; the scorer is not called otherwise
ScoreChoices(movies, user_input) ==
    IF ReachesFuzzy(movies, user_input)
    THEN [SeqToSet(movies) -> ScoreVals]
    ELSE { [t \in SeqToSet(movies) |-> 0] }

ResInit ==
    /\ res = NoRes
    /\ cmd = NoCmd
    /\ pair = NoPair
    /\ nrm = NoNrm
    /\ jsonFile = MissingFile
    /\ csvFile = NoCsv
    /\ bakFile = NoCsv
    /\ backend = "json"
    /\ last = NoCall
    /\ prev = << >>
    /\ wr = IdleWrite
    /\ js = NoJs
    /\ mig = NoMig

ResFrame ==
    UNCHANGED <<jsonFile, csvFile, bakFile, backend, last, prev, wr, js, mig, cmd, pair, nrm>>

\* a caller invokes select_title_from_user_query(movies, user_input)
SelectStart(movies, user_input) ==
    /\ res.pc = "off"
    /\ \E score \in ScoreChoices(movies, user_input) :
        res' = select_title_start(movies, user_input, score)
    /\ ResFrame

\* the user types a line at prompt_index
SelectPrompt(raw_line) ==
    /\ res.pc = "prompt"
    /\ LET r == prompt_index_step(raw_line, Len(res.cands)) IN
       res' = IF r.again THEN [res EXCEPT !.raw = raw_line]
              ELSE [res EXCEPT !.pc = "done", !.raw = raw_line,
                               !.ret = IF r.none THEN NoneVal ELSE res.cands[r.idx + 1]]
    /\ ResFrame

ResNext ==
    \/ \E m \in Catalogs, q \in Queries : SelectStart(m, q)
    \/ \E raw \in RawInputs : SelectPrompt(raw)

SpecRes == ResInit /\ [][ResNext]_vars

\* the catalog titles whose normalized form equals the normalized query
ExactHits == { t \in SeqToSet(res.movies) : normalize_title(t) = normalize_title(res.query) }

\* the catalog titles whose normalized form contains the normalized query
SubstringHits ==
    { t \in SeqToSet(res.movies) :
        Contains(normalize_title(t), normalize_title(res.query)) }

\* C9: when some title's normalized form equals the normalized query, the resolver
\* returns an exact-match title and evaluates neither the substring nor the fuzzy
\* stage, whatever the other titles are.
C9_ExactPrecedence ==
    (res.pc # "off" /\ ExactHits # {})
        => /\ res.pc = "done"
           /\ res.ret \in ExactHits
           /\ res.stages = <<"exact">>

\* C9 witness: an exact match was returned from a catalog in which another title
\* contains the query as a substring without matching it exactly
C9_Witness ==
    /\ res.pc = "done"
    /\ res.ret \in ExactHits
    /\ SubstringHits \ ExactHits # {}

\* C10: the fuzzy stage is evaluated only when the exact and the substring stage
\* both found nothing, and when the substring stage finds one or more titles the
\* candidate list and the outcome come from those titles only.
C10_CascadeGating ==
    res.pc # "off" =>
        /\ "fuzzy" \in SeqToSet(res.stages) => (ExactHits = {} /\ SubstringHits = {})
        /\ ("substring" \in SeqToSet(res.stages) /\ SubstringHits # {}) =>
              /\ "fuzzy" \notin SeqToSet(res.stages)
              /\ SeqToSet(res.cands) \subseteq SubstringHits
              /\ res.pc = "done" => (res.ret = NoneVal \/ res.ret \in SubstringHits)

\* C10 witness: the substring stage found two titles and the second was chosen
\* at the prompt
C10_Witness ==
    /\ res.pc = "done"
    /\ res.stages = <<"exact", "substring">>
    /\ Len(res.subs) >= 2
    /\ res.ret = res.subs[2]

\* the titles of the set S in the enumeration order of the catalog
InCatalogOrder(S) == SelectSeq(res.movies, LAMBDA t : t \in S)

\* C11: when more than one catalog title has a normalized form equal to the
\* normalized query, the resolver does not return one of them directly: it presents
\* all of them, in catalog order, as the candidates of a disambiguation choice.
C11_ExactAmbiguous ==
    (res.pc # "off" /\ Cardinality(ExactHits) > 1)
        => res.cands = InCatalogOrder(ExactHits)

\* C12: when no title matches exactly, the substring stage finds exactly the titles
\* whose normalized form contains the normalized query, in catalog order; a single
\* such title is returned without a prompt, several are presented, in that order,
\* as the candidates of the prompt.
C12_SubstringStage ==
    (res.pc # "off" /\ ExactHits = {} /\ SubstringHits # {})
        => /\ res.subs = InCatalogOrder(SubstringHits)
           /\ Len(res.subs) = 1 =>
                (res.pc = "done" /\ res.ret = res.subs[1] /\ res.cands = <<>>)
           /\ Len(res.subs) > 1 => res.cands = InCatalogOrder(SubstringHits)

\* C12 witness: a non-empty query contained in two titles that are enumerated
\* against alphabetical order; both are offered and the second is chosen
C12_Witness ==
    /\ res.pc = "done"
    /\ res.query # <<>>
    /\ ExactHits = {}
    /\ Len(res.cands) = 2
    /\ res.cands = res.subs
    /\ StrLess(res.cands[2], res.cands[1])
    /\ res.ret = res.cands[2]

\* the call reached the fuzzy stage
FuzzyStage == res.pc # "off" /\ "fuzzy" \in SeqToSet(res.stages)

\* the titles fuzz.WRatio scored at or above the threshold in this call
FuzzyHits ==
    { res.scored[i].t : i \in { j \in 1..Len(res.scored) : res.scored[j].s >= FUZZY_THRESHOLD } }

\* C13: in the fuzzy stage a single title at or above the threshold is returned
\* without a prompt, several such titles are presented as the candidates of the
\* prompt, and with none the resolver returns None.
C13_FuzzyOutcome ==
    FuzzyStage =>
        /\ Cardinality(FuzzyHits) = 1 =>
             (res.pc = "done" /\ res.ret \in FuzzyHits /\ res.cands = <<>>)
        /\ Cardinality(FuzzyHits) > 1 => SeqToSet(res.cands) = FuzzyHits
        /\ FuzzyHits = {} => (res.pc = "done" /\ res.ret = NoneVal /\ res.cands = <<>>)

\* the score fuzz.WRatio returned for each title in this call
ScoreOf == [t \in SeqToSet(res.movies) |->
              (CHOOSE e \in SeqToSet(res.scored) : e.t = t).s]

\* the catalogs with the titles of this call in any enumeration order
Reorderings ==
    { c \in [1..Len(res.movies) -> SeqToSet(res.movies)] : SeqToSet(c) = SeqToSet(res.movies) }

\* C14: the fuzzy results are ordered by score descending and, among equal scores,
\* by title ascending, and they are the same list for every enumeration order of
\* the catalog titles.
C14_FuzzyTotalOrder ==
    FuzzyStage =>
        /\ \A i \in 1..(Len(res.fuzzy) - 1) :
             \/ res.fuzzy[i].s > res.fuzzy[i + 1].s
             \/ /\ res.fuzzy[i].s = res.fuzzy[i + 1].s
                /\ StrLess(res.fuzzy[i].t, res.fuzzy[i + 1].t)
        /\ \A c \in Reorderings : fuzzy_matches(c, ScoreOf, FUZZY_THRESHOLD) = res.fuzzy

\* C14 witness: two titles with equal scores at or above the threshold, enumerated
\* by the catalog in descending title order
C14_Witness ==
    /\ FuzzyStage
    /\ Len(res.fuzzy) = 2
    /\ res.fuzzy[1].s = res.fuzzy[2].s
    /\ res.movies = << res.fuzzy[2].t, res.fuzzy[1].t >>

\* C15: the fuzzy stage keeps a title if and only if its score is at least 60, with
\* the score it was given: 60 is kept, 59 is not.
C15_ThresholdBoundary ==
    FuzzyStage =>
        \A e \in SeqToSet(res.scored) : (e \in SeqToSet(res.fuzzy)) <=> (e.s >= 60)

\* C15 witness: a call in which one title scored exactly 60 and was kept and
\* another scored 59 and was dropped
C15_Witness ==
    /\ FuzzyStage
    /\ \E e \in SeqToSet(res.fuzzy) : e.s = 60
    /\ \E e \in SeqToSet(res.scored) : e.s = 59 /\ e \notin SeqToSet(res.fuzzy)
    /\ \A e \in SeqToSet(res.fuzzy) : e.s >= 60

(***************************************************************************)
(* MovieApp._command_delete_movie and _command_update_movie on the backend *)
(* main() constructed: list_movies, prompt_title, the resolver with its    *)
(* prompt, then the confirmation line or the note and the storage call.    *)
(* cmd.pc: "off" no command yet, "resolve" inside the resolver or just     *)
(* after its return, "done" the command returned.  One command is followed *)
(* per behaviour, on every store the add_movie calls before it can build.  *)
(***************************************************************************)
\* titles added to the store before the commands run
CmdTitles == { <<"M", "a">>, <<"a", "m">>, <<"M">> }

\* what prompt_title returns: stripped and non-empty
CmdQueries == { <<"a">>, <<"m">>, <<"x">> }

\* the line typed at the deletion confirmation or at prompt_notes
CmdLines == { <<>>, <<"n">>, <<"m", "a", " ">>, <<"a", "m">>, <<"M">> }

CmdPayload ==
    [year |-> <<"1", "9", "9", "7">>, rating |-> Float(85), poster |-> <<"u">>,
     imdb_id |-> Omitted]

\* the confirmation accepting any line
confirms_Any(typed, resolved_title) == TRUE

\* not (normalize_title(typed) != normalize_title(resolved_title))
confirms(typed, resolved_title) == normalize_title(typed) = normalize_title(resolved_title)

\* the command continuing although the resolver returned None
command_after_resolve_NoGuard(kind, resolved_title, line) ==
    LET text == Strip(line) IN
    IF kind = "delete"
    THEN IF ~confirms(text, resolved_title)
         THEN [call |-> "none", arg |-> NoneVal]
         ELSE [call |-> "delete_movie", arg |-> NoneVal]
    ELSE [call |-> "update_movie_notes", arg |-> IF text = <<>> THEN NoneVal ELSE text]

\* the command after select_title_from_user_query returned resolved_title and the
\* user typed line: the storage call it makes, "none" when it returns without one
command_after_resolve(kind, resolved_title, line) ==
    LET text == Strip(line) IN
    IF IsNone(resolved_title) \/ resolved_title = <<>>
    THEN [call |-> "none", arg |-> NoneVal]
    ELSE IF kind = "delete"
    THEN IF ~confirms(text, resolved_title)
         THEN [call |-> "none", arg |-> NoneVal]
         ELSE [call |-> "delete_movie", arg |-> NoneVal]
    ELSE [call |-> "update_movie_notes", arg |-> IF text = <<>> THEN NoneVal ELSE text]

\* the storage call of a command on the constructed backend: [out, file]
StorageCall(call, title, arg) ==
    IF call = "delete_movie"
    THEN IF backend = "json" THEN StorageJson_delete_movie(jsonFile, title)
         ELSE StorageCsv_delete_movie(csvFile, title)
    ELSE IF backend = "json" THEN IStorage_update_movie_notes(jsonFile, title, arg)
         ELSE StorageCsv_update_movie_notes(csvFile, title, arg)

\* add_movie calls that fill the store before the first command
CmdAdd(title) ==
    /\ cmd.pc = "off"
    /\ Add(title, CmdPayload)

\* a command up to the return of the resolver or its first prompt
CmdStart(kind, user_input) ==
    /\ cmd.pc = "off"
    /\ LET movies_dict == ListSeq IN
       IF movies_dict = <<>>
       THEN /\ cmd' = [NoCmd EXCEPT !.kind = kind, !.pc = "done", !.before = List]
            /\ res' = NoRes
       ELSE /\ cmd' = [NoCmd EXCEPT !.kind = kind, !.pc = "resolve", !.before = List]
            /\ \E score \in ScoreChoices(KeySeq(movies_dict), user_input) :
                 res' = select_title_start(KeySeq(movies_dict), user_input, score)
    /\ UNCHANGED <<jsonFile, csvFile, bakFile, backend, last, prev, wr, js, mig, pair, nrm>>

\* the user types a line at the resolver's prompt
CmdPrompt(raw_line) ==
    /\ cmd.pc = "resolve"
    /\ SelectPrompt(raw_line)

\* the command from the return of the resolver to its own return
CmdFinish(line) ==
    /\ cmd.pc = "resolve"
    /\ res.pc = "done"
    /\ LET step == command_after_resolve(cmd.kind, res.ret, line) IN
       IF step.call = "none"
       THEN /\ cmd' = [cmd EXCEPT !.pc = "done", !.line = line]
            /\ UNCHANGED <<jsonFile, csvFile>>
       ELSE LET r == StorageCall(step.call, res.ret, step.arg) IN
            /\ cmd' = [cmd EXCEPT !.pc = "done", !.target = res.ret, !.line = line,
                                  !.called = step.call, !.out = r.out]
            /\ IF backend = "json"
               THEN jsonFile' = r.file /\ UNCHANGED csvFile
               ELSE csvFile' = r.file /\ UNCHANGED jsonFile
    /\ UNCHANGED <<bakFile, backend, last, prev, wr, js, mig, res, pair, nrm>>

CmdNext ==
    \/ \E t \in CmdTitles : CmdAdd(t)
    \/ \E kind \in {"delete", "update"}, q \in CmdQueries : CmdStart(kind, q)
    \/ \E raw \in RawInputs : CmdPrompt(raw)
    \/ \E line \in CmdLines : CmdFinish(line)

SpecCmd == Init /\ [][CmdNext]_vars

\* the resolver of the command presented a candidate list
Ambiguous == cmd.pc # "off" /\ res.cands # <<>>

\* the last line typed at the prompt, stripped
LineTyped == Strip(res.raw)

\* that line is a number of the domain [1, len(candidates)]
InDomain ==
    /\ Len(LineTyped) = 1
    /\ IsDigit(LineTyped[1])
    /\ DigitVal(LineTyped[1]) \in 1..Len(res.cands)

\* the prompt returned on a blank line
Cancelled == res.pc = "done" /\ LineTyped = <<>>

\* a line was typed that is no number of the domain
OutsideDomain == LineTyped # <<>> /\ ~InDomain

\* the command has invoked no mutating storage operation and list() is what it
\* was when the command began
NoMutation == cmd.called = "none" /\ List = cmd.before

\* the candidate at the typed 1-based position is the resolver's result and the
\* title of any storage call the command makes
SelectsTyped ==
    /\ res.pc = "done"
    /\ res.ret = res.cands[DigitVal(LineTyped[1])]
    /\ cmd.called # "none" => cmd.target = res.ret

C17_DeleteExactKey ==
    (last.op = "delete" /\ HasKey(last.before, last.title))
        => /\ last.out = "ok"
           /\ ListSeq = Del(last.before, last.title)

\* the field an update call is to change
UpdatedField(op) == IF op = "update_rating" THEN "rating" ELSE "notes"

\* the records a and b agree on every field but name
SameBut(a, b, name) ==
    /\ DOMAIN a \ {name} = DOMAIN b \ {name}
    /\ \A f \in DOMAIN a \ {name} : a[f] = b[f]

\* C18: update_rating and update_notes of a title that is a key of the store
\* succeed; list() afterwards has the same keys in the same order, every other
\* record is the same, the record of the title is the same in every field but the
\* updated one, and after update_rating(title, r) its rating is r.
C18_UpdateFrame ==
    (last.op \in {"update_rating", "update_notes"} /\ HasKey(last.before, last.title))
        => /\ last.out = "ok"
           /\ KeySeq(ListSeq) = KeySeq(last.before)
           /\ \A key \in Keys(last.before) \ {last.title} :
                Get(ListSeq, key) = Get(last.before, key)
           /\ SameBut(Get(ListSeq, last.title), Get(last.before, last.title),
                      UpdatedField(last.op))
           /\ last.op = "update_rating" =>
                Field(Get(ListSeq, last.title), "rating") = last.arg

(***************************************************************************)
(* The same calls made on a StorageJson and on a StorageCsv, each          *)
(* constructed over a path with no file                                     *)
(***************************************************************************)
PairTitles == { <<"M">>, <<"m">> }

PairInit ==
    /\ jsonFile = StorageJson_write(<<>>)
    /\ csvFile = StorageCsv_write_all(<<>>)
    /\ bakFile = NoCsv
    /\ backend = "json"
    /\ last = NoCall
    /\ prev = << >>
    /\ wr = IdleWrite
    /\ js = NoJs
    /\ mig = NoMig
    /\ res = NoRes
    /\ cmd = NoCmd
    /\ pair = NoPair
    /\ nrm = NoNrm

\* one call on both backends: rj is what StorageJson does, rc what StorageCsv does
PairCall(op, title, arg, rj, rc) ==
    /\ jsonFile' = rj.file
    /\ csvFile' = rc.file
    /\ pair' = [op |-> op, title |-> title, arg |-> arg, outJ |-> rj.out, outC |-> rc.out]
    /\ UNCHANGED <<bakFile, backend, last, prev, wr, js, mig, res, cmd, nrm>>

PairList ==
    PairCall("list", NoneVal, NoneVal, [out |-> "ok", file |-> jsonFile],
             [out |-> "ok", file |-> csvFile])

PairAdd(title, p) ==
    /\ Len(StorageJson_read(jsonFile).data) < MaxRecords
    /\ Len(StorageCsv_read_all(csvFile)) < MaxRecords
    /\ PairCall("add", title, p, StorageJson_add_movie(jsonFile, title, p),
                StorageCsv_add_movie(csvFile, title, p))

PairDelete(title) ==
    PairCall("delete", title, NoneVal, StorageJson_delete_movie(jsonFile, title),
             StorageCsv_delete_movie(csvFile, title))

PairUpdateRating(title, rating) ==
    PairCall("update_rating", title, rating,
             StorageJson_update_movie(jsonFile, title, rating),
             StorageCsv_update_movie(csvFile, title, rating))

PairUpdateNotes(title, notes) ==
    PairCall("update_notes", title, notes,
             IStorage_update_movie_notes(jsonFile, title, notes),
             StorageCsv_update_movie_notes(csvFile, title, notes))

PairNext ==
    \/ PairList
    \/ \E t \in PairTitles, p \in Payloads : PairAdd(t, p)
    \/ \E t \in PairTitles : PairDelete(t)
    \/ \E t \in PairTitles, r \in RatingArgs : PairUpdateRating(t, r)
    \/ \E t \in PairTitles, n \in NotesArgs : PairUpdateNotes(t, n)

SpecPair == PairInit /\ [][PairNext]_vars

\* C19: every call has the same outcome kind on the JSON and on the CSV backend,
\* and after every call list() is the same title-to-record mapping on both.
C19_BackendParity ==
    pair.op # "none" =>
        /\ OutcomeKind(pair.op, pair.outJ) = OutcomeKind(pair.op, pair.outC)
        /\ ListJ(jsonFile) = ListC(csvFile)

(***************************************************************************)
(* normalize_title applied to a text and to its own result                 *)
(***************************************************************************)
\* characters of the texts: whitespace (also as the no-break space), letters in
\* both cases, a letter case folding expands, precomposed letters, a combining
\* mark, and a character whose decomposition begins with a space
NormChars == { " ", "U+00A0", "M", "a", "É", "é", "´", "ß", "¨", "I", "U+0131" }

NormTexts == UNION { [1..n -> NormChars] : n \in 0..MaxLen }

NormInit ==
    /\ nrm \in { [NoNrm EXCEPT !.pc = "in", !.s = t] : t \in NormTexts }
    /\ jsonFile = MissingFile
    /\ csvFile = NoCsv
    /\ bakFile = NoCsv
    /\ backend = "json"
    /\ last = NoCall
    /\ prev = << >>
    /\ wr = IdleWrite
    /\ js = NoJs
    /\ mig = NoMig
    /\ res = NoRes
    /\ cmd = NoCmd
    /\ pair = NoPair

\* normalize_title(s) and normalize_title(normalize_title(s))
Normalize ==
    /\ nrm.pc = "in"
    /\ nrm' = [nrm EXCEPT !.pc = "out", !.once = normalize_title(nrm.s),
                          !.twice = normalize_title(normalize_title(nrm.s))]
    /\ UNCHANGED <<jsonFile, csvFile, bakFile, backend, last, prev, wr, js, mig, res,
                   cmd, pair>>

NormNext == Normalize

SpecNorm == NormInit /\ [][NormNext]_vars

\* C20: normalize_title is idempotent: normalizing a normalized text gives that
\* text again.
C20_NormalizeIdempotent == nrm.pc = "out" => nrm.twice = nrm.once

\* C20 witness: a text with a precomposed capital and a character that decomposes
\* into a space and a mark has been normalized, and normalization changed it
C20_Witness ==
    /\ nrm.pc = "out"
    /\ "É" \in SeqToSet(nrm.s)
    /\ "¨" \in SeqToSet(nrm.s)
    /\ nrm.once # nrm.s
    /\ " " \in SeqToSet(nrm.once)

\* the characters of the texts that str.isspace holds for
SpaceChars == { " ", "U+00A0" }

\* the texts that differ from s in the case of one letter
CaseVariants(s) ==
    UNION { { SubSeq(s, 1, i - 1) \o c \o SubSeq(s, i + 1, Len(s)) :
                c \in { UpperChar(s[i]), LowerChar(s[i]) } } : i \in 1..Len(s) }

\* the texts that differ from s by one more whitespace character at an end or in
\* a whitespace run
SpaceVariants(s) ==
    { SubSeq(s, 1, p) \o <<w>> \o SubSeq(s, p + 1, Len(s)) :
        p \in { q \in 0..Len(s) :
                  \/ q = 0
                  \/ q = Len(s)
                  \/ s[q] \in SpaceChars
                  \/ s[q + 1] \in SpaceChars },
        w \in SpaceChars }

\* a text without leading, trailing or doubled whitespace
Tidy(t) ==
    /\ \A i \in 1..Len(t) : t[i] \in SpaceChars => (i > 1 /\ i < Len(t))
    /\ \A i \in 1..(Len(t) - 1) : ~(t[i] \in SpaceChars /\ t[i + 1] \in SpaceChars)

\* C21: a text and every text that differs from it only in the case of a letter,
\* in leading or trailing whitespace or in the length of a whitespace run have the
\* same normalized form, and that form has no leading, trailing or doubled
\* whitespace.
C21_CaseWhitespaceInsensitive ==
    nrm.pc = "out" =>
        /\ \A v \in CaseVariants(nrm.s) \cup SpaceVariants(nrm.s) :
             normalize_title(v) = nrm.once
        /\ Tidy(nrm.once)

\* the column names DictReader finds in a file, none for an empty file
HeaderOf(file) ==
    LET names == DictReader_fieldnames(file) IN IF IsNone(names) THEN <<>> ELSE names

\* the last migration call returned changed or unchanged
MigReturned == mig.calls > 0 /\ mig.ret[Len(mig.ret)] \in {"changed", "unchanged"}

\* the file has the columns of cols and those it had before the first call, its
\* rows are those it had with their cells in the old columns, and the cells of
\* the new columns are empty
SchemaEnlarged(cols) ==
    LET oldNames == SeqToSet(HeaderOf(mig.pre))
        newNames == SeqToSet(HeaderOf(csvFile))
        oldRows == DictReader_rows(mig.pre)
        newRows == DictReader_rows(csvFile)
    IN /\ cols \subseteq newNames
       /\ oldNames \subseteq newNames
       /\ Len(newRows) = Len(oldRows)
       /\ \A i \in 1..Len(oldRows) :
            /\ \A c \in oldNames : OrEmpty(Get(newRows[i], c)) = OrEmpty(Get(oldRows[i], c))
            /\ \A c \in newNames \ oldNames : OrEmpty(Get(newRows[i], c)) = <<>>

\* C23: after a migration call returned changed or unchanged, the header has the
\* required columns notes and imdb_id and every column it had before, every row is
\* still there with its values in the old columns, and every new cell is empty.
C23_MigrationSchema == MigReturned => SchemaEnlarged(RequiredColumns)

\* C24: when the migration changed the file, a backup that existed before is as it
\* was, and a backup that did not exist holds the content the CSV file had before
\* the migration, in every state after the change.
C24_BackupPreserved ==
    (mig.calls > 0 /\ mig.ret[1] = "changed")
        => bakFile = (IF mig.preBak.exists THEN mig.preBak ELSE mig.pre)

\* C24 witness: a file with a data row was migrated while a backup existed, and
\* migration was called again
C24_Witness ==
    /\ mig.calls >= 2
    /\ mig.ret[1] = "changed"
    /\ mig.preBak.exists
    /\ Len(mig.pre.rows) >= 2
    /\ csvFile # mig.pre
    /\ bakFile = mig.preBak

\* C25: migration of a path that does not exist, is no regular file or has no
\* .csv suffix raises an error at every call, returns neither changed nor
\* unchanged, and leaves the path and the backup path as they were.
C25_WrongPathRaises ==
    (mig.calls > 0 /\ (~mig.pre.exists \/ mig.kind # "csv"))
        => /\ \A i \in 1..Len(mig.ret) : mig.ret[i] = "FileNotFoundError"
           /\ csvFile = mig.pre
           /\ bakFile = mig.preBak

\* C25 witness: migration was called on a file of rows without a notes column
\* whose name has another suffix, with no backup present
C25_Witness ==
    /\ mig.calls > 0
    /\ mig.kind = "txt"
    /\ Len(mig.pre.rows) >= 2
    /\ COL_notes \notin SeqToSet(HeaderOf(mig.pre))
    /\ ~bakFile.exists
    /\ mig.ret[1] = "FileNotFoundError"

(***************************************************************************)
(* A store file found on disk: a process constructs the backend over it,   *)
(* makes storage calls, and later processes construct the backend again    *)
(* over the same path.                                                      *)
(***************************************************************************)
\* the header is rewritten at every construction
StorageCsv_ensure_file_Always(file) == StorageCsv_write_all(<<>>)

\* StorageCsv._ensure_file: the file at the path after __init__
StorageCsv_ensure_file(file) ==
    IF \/ ~file.exists
       \/ \A i \in 1..Len(file.rows) : file.rows[i] = <<>>      \* not sample.strip()
       \/ IsNone(DictReader_fieldnames(file))
       \/ \E fn \in SeqToSet(FIELDNAMES) : fn \notin SeqToSet(HeaderOf(file))
    THEN StorageCsv_write_all(<<>>)
    ELSE file

\* rating cells of files on disk
OpenCells ==
    { <<>>, <<" ">>, <<"N", "/", "A">>, <<"n", "/", "a">>, <<" ", "N", "/", "A">>,
      <<"x">>, <<"8", ".", "5">> }

RatedRow(title, cell) == << title, cell, <<"1", "9", "9", "7">>, <<>>, <<"n">>, <<>> >>

\* the columns of the schema in another order, with one more
ShuffledHeader ==
    <<COL_rating, COL_title, COL_imdb_id, COL_notes, COL_poster, <<"x">>, COL_year>>

\* CSV files at the path before the first construction: none, an empty one,
\* data without a header, one data row under each migration header, the schema
\* in another order, and rows of the full schema with each rating cell
OpenCsvFiles ==
    { NoCsv,
      [exists |-> TRUE, rows |-> <<>>],
      [exists |-> TRUE, rows |-> <<Take(DataRow, 4)>>],
      [exists |-> TRUE, rows |-> <<ShuffledHeader,
                                   << <<"x">>, <<"M">>, <<>>, <<>>, <<>>, <<>>, <<>> >> >>] }
    \cup { [exists |-> TRUE, rows |-> <<h, Take(DataRow, Len(h))>>] : h \in MigHeaders }
    \cup { [exists |-> TRUE, rows |-> <<FIELDNAMES, RatedRow(<<"M">>, c)>>] : c \in OpenCells }

\* JSON files at the path before the first construction
OpenJsonFiles ==
    { MissingFile,
      [exists |-> TRUE, text |-> <<Garbage>>],
      StorageJson_write(<< [k |-> <<"M">>, v |-> JsonRecord(NoneVal, Float(85), NoneVal)] >>) }

OpenTitles == { <<"M">>, <<"a">> }

OpenInit ==
    /\ backend \in {"json", "csv"}
    /\ jsonFile \in (IF backend = "json" THEN OpenJsonFiles ELSE {MissingFile})
    /\ csvFile \in (IF backend = "csv" THEN OpenCsvFiles ELSE {NoCsv})
    /\ bakFile = NoCsv
    /\ last = NoCall
    /\ prev = << >>
    /\ wr = IdleWrite
    /\ js = NoJs
    /\ mig = NoMig
    /\ res = NoRes
    /\ cmd = NoCmd
    /\ pair = NoPair
    /\ nrm = NoNrm

\* a process constructs the backend over the path; arg keeps the call made
\* before and the CSV file found
OpenStore ==
    /\ prev' = List
    /\ LET rj == StorageJson_init(jsonFile)
           found == [op |-> last.op, out |-> last.out, file |-> csvFile]
       IN IF backend = "json"
          THEN /\ jsonFile' = rj.file
               /\ last' = [op |-> "construct", title |-> NoneVal, arg |-> found,
                           out |-> rj.out, before |-> ListSeq]
               /\ UNCHANGED csvFile
          ELSE /\ csvFile' = StorageCsv_ensure_file(csvFile)
               /\ last' = [op |-> "construct", title |-> NoneVal, arg |-> found,
                           out |-> "ok", before |-> ListSeq]
               /\ UNCHANGED jsonFile
    /\ UNCHANGED <<bakFile, backend, wr, js, mig, res, cmd, pair, nrm>>

Constructed == last.op # "none"

OpenAdd(title, p) == Constructed /\ Add(title, p)

OpenDelete(title) == Constructed /\ Delete(title)

OpenUpdateRating(title, rating) == Constructed /\ UpdateRating(title, rating)

OpenUpdateNotes(title, notes) == Constructed /\ UpdateNotes(title, notes)

OpenNext ==
    \/ OpenStore
    \/ \E t \in OpenTitles, p \in Payloads : OpenAdd(t, p)
    \/ \E t \in OpenTitles : OpenDelete(t)
    \/ \E t \in OpenTitles, r \in RatingArgs : OpenUpdateRating(t, r)
    \/ \E t \in OpenTitles, n \in NotesArgs : OpenUpdateNotes(t, n)

SpecOpen == OpenInit /\ [][OpenNext]_vars

\* the row of the store file a call on title acts on
RowOf(title) ==
    LET rows == StorageCsv_read_all(csvFile)
    IN rows[StorageCsv_find_index_by_title(rows, title)]

\* float(cell) succeeds
Parseable(cell) == ParseFloat(Strip(cell)) # NoneVal

\* a rating cell that is empty, "N/A" or no number
NullCell(cell) ==
    IsNone(cell) \/ cell = <<>> \/ cell = <<"N", "/", "A">> \/ ~Parseable(cell)

\* row i of rows is the one list_movies reports under its title
Listed(rows, i) ==
    LET title(j) == Strip(OrEmpty(Get(rows[j], COL_title)))
    IN title(i) # <<>> /\ \A j \in (i + 1)..Len(rows) : title(j) # title(i)

\* C22: on the CSV backend a record added or updated with rating None is
\* written with an empty rating cell, and list_movies returns rating None for
\* every row whose rating cell is empty, "N/A" or not parseable as a number.
C22_RatingNullEncoding ==
    (backend = "csv" /\ Constructed) =>
        /\ (last.op = "add" /\ last.out = "ok" /\ IsNone(last.arg.rating))
               => Get(RowOf(last.title), COL_rating) = <<>>
        /\ (last.op = "update_rating" /\ last.out = "ok" /\ IsNone(last.arg))
               => Get(RowOf(last.title), COL_rating) = <<>>
        /\ LET rows == StorageCsv_read_all(csvFile) IN
           \A i \in 1..Len(rows) :
               (Listed(rows, i) /\ NullCell(Get(rows[i], COL_rating)))
                   => List[Strip(Get(rows[i], COL_title))].rating = NoneVal

\* C22 witness: a record was added with rating None to a file that holds a row
\* with an unparsable rating cell
C22_Witness ==
    /\ backend = "csv"
    /\ last.op = "add" /\ last.out = "ok" /\ IsNone(last.arg.rating)
    /\ \E i \in 2..Len(csvFile.rows) : csvFile.rows[i][2] = <<"x">>

\* C22 witness of the update: the rating of a rated record was set to None
C22_UpdateWitness ==
    /\ backend = "csv"
    /\ last.op = "update_rating" /\ last.out = "ok" /\ IsNone(last.arg)
    /\ HasKey(last.before, last.title)
    /\ Get(last.before, last.title).rating = Float(85)

\* C26: constructing the CSV backend over an existing file whose header lacks
\* a schema column keeps the records: list_movies right after the construction
\* returns what the file held before.
C26_ConstructionKeepsRows ==
    (/\ backend = "csv" /\ last.op = "construct"
     /\ last.arg.file.exists
     /\ \E fn \in SeqToSet(FIELDNAMES) : fn \notin SeqToSet(HeaderOf(last.arg.file)))
        => List = prev

\* C29: a backend constructed over the path after a successful add, delete,
\* update or update_notes lists the mapping the calling instance listed.
C29_Persisted ==
    (/\ last.op = "construct"
     /\ last.arg.op \in {"add", "delete", "update_rating", "update_notes"}
     /\ last.arg.out = "ok")
        => (last.out = "ok" /\ List = prev)

\* C29 witness: the CSV backend was constructed again after an add and lists a
\* record
C29_Witness ==
    /\ backend = "csv"
    /\ last.op = "construct" /\ last.arg.op = "add" /\ last.arg.out = "ok"
    /\ DOMAIN List # {}
    /\ List = prev

\* C29 witness on the JSON backend, after an update
C29_JsonWitness ==
    /\ backend = "json"
    /\ last.op = "construct" /\ last.arg.op = "update_rating" /\ last.arg.out = "ok"
    /\ DOMAIN List # {}

\* C27: on the CSV backend every key list_movies returns is accepted by
\* delete_movie, update_movie and update_movie_notes, and list_movies has as
\* many keys as the file has data rows.
C27_ListedKeysUsable ==
    backend = "csv" =>
        /\ \A key \in DOMAIN List :
              /\ StorageCsv_delete_movie(csvFile, key).out # "KeyError"
              /\ StorageCsv_update_movie(csvFile, key, NoneVal).out # "KeyError"
              /\ StorageCsv_update_movie_notes(csvFile, key, NoneVal).out # "KeyError"
        /\ Cardinality(DOMAIN List) = Len(StorageCsv_read_all(csvFile))

\* C28: the resolver returns None or a key of the mapping it was given, as
\* stored, whatever the catalog, the query and the lines typed at the prompt.
C28_ReturnsStoredKey ==
    res.pc = "done" => (IsNone(res.ret) \/ res.ret \in SeqToSet(res.movies))

\* C28 witness: a title that differs from its normalized form was picked at the
\* prompt of the fuzzy stage and returned as stored
C28_Witness ==
    /\ res.pc = "done"
    /\ res.stages = <<"exact", "substring", "fuzzy">>
    /\ res.raw # <<>>
    /\ res.ret \in SeqToSet(res.movies)
    /\ normalize_title(res.ret) # res.ret
    /\ normalize_title(res.ret) \notin SeqToSet(res.movies)

\* C30: the delete command calls delete_movie only with a resolved title and
\* a confirmation line whose normalized form is that of the resolved title, and
\* then on the resolved title; on every other path it calls no mutating
\* storage operation and leaves the store unchanged.
C30_DeleteNeedsConfirmation ==
    cmd.kind = "delete" =>
        IF cmd.called = "none"
        THEN List = cmd.before
        ELSE /\ cmd.called = "delete_movie"
             /\ res.pc = "done"
             /\ ~IsNone(res.ret)
             /\ res.ret \in DOMAIN cmd.before
             /\ normalize_title(Strip(cmd.line)) = normalize_title(res.ret)
             /\ cmd.target = res.ret

\* the delete command returned without a storage call: the store was empty,
\* nothing was resolved, or the line typed does not confirm
C30_Refused ==
    (cmd.kind = "delete" /\ cmd.pc = "done"
     /\ (cmd.before = << >> \/ IsNone(res.ret)
            \/ normalize_title(Strip(cmd.line)) # normalize_title(res.ret)))
        => NoMutation

\* C30 witness: a delete command deleted the resolved title after a confirmation
\* that differs from it in case and whitespace
C30_Witness ==
    /\ cmd.kind = "delete"
    /\ cmd.called = "delete_movie"
    /\ cmd.out = "ok"
    /\ Strip(cmd.line) # res.ret
    /\ cmd.line # res.ret
    /\ cmd.target \notin DOMAIN List

\* C30 witness of a refusal: a resolved title, a line that does not confirm
C30_RefusedWitness ==
    /\ cmd.kind = "delete" /\ cmd.pc = "done"
    /\ ~IsNone(res.ret)
    /\ cmd.line \notin {NoneVal, <<>>}
    /\ cmd.called = "none"

====
